---- MODULE Spec2Model ----
(***************************************************************************)
(* Model of src/app.py: the Flask handler generate_caption behind          *)
(* POST /generate-caption.  One request is followed through the handler    *)
(* statement by statement; the Gemini call is the environment.             *)
(*                                                                         *)
(* Python strings are sequences of one-character strings, so that strip,   *)
(* startswith, slicing, rstrip, json.loads and re.search are computed on   *)
(* the characters as the interpreter computes them.                        *)
(***************************************************************************)
EXTENDS Integers, Sequences, FiniteSets

\* ------------------------------------------------------------------ bounds
\* Longest hashtag list a reply of the generative model carries.
MaxTags == 2
\* Most leading hash characters a hashtag of a reply carries.
MaxHashes == 2

\* ------------------------------------------------------------- characters
QUOTE == "\""
\* The backtick, named: a TLA+ string cannot hold the character itself.
BT == "BACKTICK"
NL == "\n"
SP == " "
HASH == "#"

\* str.strip() with no argument removes these (of the characters in use).
PyWhitespace == {SP, NL, "\t", "\r"}
\* json.decoder.WHITESPACE
JsonWhitespace == {SP, NL, "\t", "\r"}
\* json.decoder.STRINGCHUNK in strict mode stops at these: an error inside a string.
JsonControl == {NL, "\t", "\r"}
Digits == {"0", "1", "2", "3", "4", "5", "6", "7", "8", "9"}

SetMin(S) == CHOOSE x \in S : \A y \in S : x <= y
SetMax(S) == CHOOSE x \in S : \A y \in S : x >= y

\* s.startswith(p)
StartsWith(s, p) == Len(s) >= Len(p) /\ SubSeq(s, 1, Len(p)) = p

\* s[k:]
SliceFrom(s, k) == IF k >= Len(s) THEN <<>> ELSE SubSeq(s, k + 1, Len(s))

\* s.strip()
Strip(s) ==
    LET keep == {i \in 1..Len(s) : s[i] \notin PyWhitespace}
    IN  IF keep = {} THEN <<>> ELSE SubSeq(s, SetMin(keep), SetMax(keep))

\* s.rstrip(chars): chars is a SET of characters, so rstrip of three backticks
\* removes every trailing backtick, however many there are.
RStripChars(s, chars) ==
    LET keep == {i \in 1..Len(s) : s[i] \notin chars}
    IN  IF keep = {} THEN <<>> ELSE SubSeq(s, 1, SetMax(keep))

\* The characters of the two fence markers and of the argument of rstrip.
FenceJson == <<BT, BT, BT, "j", "s", "o", "n">>
FenceAny == <<BT, BT, BT>>
FenceChars == {BT}

\* Step 6 of the handler: text = response.text.strip(), then the two branches.
StripFences(raw) ==
    LET text == Strip(raw)
    IN  IF StartsWith(text, FenceJson)
        THEN Strip(RStripChars(SliceFrom(text, Len(FenceJson)), FenceChars))
        ELSE IF StartsWith(text, FenceAny)
        THEN Strip(RStripChars(SliceFrom(text, Len(FenceAny)), FenceChars))
        ELSE text

\* ------------------------------------------------------------ JSON values
\* What json.loads returns, tagged by Python type.
JNull == [t |-> "NoneType", v |-> 0]
JBool(b) == [t |-> "bool", v |-> b]
JInt(n) == [t |-> "int", v |-> n]
JStr(s) == [t |-> "str", v |-> s]
JList(l) == [t |-> "list", v |-> l]
\* A dict is a function from its keys (strings) to values.
JDict(d) == [t |-> "dict", v |-> d]

EmptyDict == [k \in {} |-> JNull]
\* d[key] = val
DictSet(d, key, val) ==
    [k \in (DOMAIN d) \cup {key} |-> IF k = key THEN val ELSE d[k]]

\* ------------------------------------------------------------- json.loads
\* A parse result: ok, the value, and the index after it.
ParseFail == [ok |-> FALSE, val |-> JNull, pos |-> 0]
ParseOk(val, pos) == [ok |-> TRUE, val |-> val, pos |-> pos]

\* WHITESPACE.match(s, i).end()
SkipWs(s, i) ==
    LET stop == {j \in i..Len(s) : s[j] \notin JsonWhitespace}
    IN  IF stop = {} THEN (IF i > Len(s) THEN i ELSE Len(s) + 1) ELSE SetMin(stop)

CharAt(s, i) == IF i >= 1 /\ i <= Len(s) THEN s[i] ELSE ""

HasAt(s, i, word) ==
    i + Len(word) - 1 <= Len(s) /\ SubSeq(s, i, i + Len(word) - 1) = word

\* py_scanstring, strict: up to the next quote; a control character is an
\* error.  (The replies of the model carry no backslash.)
ParseString(s, i) ==
    LET close == {j \in (i + 1)..Len(s) : s[j] = QUOTE}
    IN  IF close = {} THEN ParseFail
        ELSE LET j == SetMin(close)
                 body == SubSeq(s, i + 1, j - 1)
             IN  IF \E k \in 1..Len(body) : body[k] \in JsonControl
                 THEN ParseFail
                 ELSE ParseOk(JStr(body), j + 1)

RECURSIVE DigitsValue(_)
DigitsValue(ds) ==
    IF ds = <<>> THEN 0
    ELSE 10 * DigitsValue(SubSeq(ds, 1, Len(ds) - 1))
         + (CHOOSE n \in 0..9 : ds[Len(ds)] = <<"0", "1", "2", "3", "4", "5", "6", "7", "8", "9">>[n + 1])

\* NUMBER_RE, integers only: 0 | [1-9][0-9]*
ParseNumber(s, i) ==
    IF s[i] = "0" THEN ParseOk(JInt(0), i + 1)
    ELSE LET stop == {j \in i..Len(s) : s[j] \notin Digits}
             end == IF stop = {} THEN Len(s) + 1 ELSE SetMin(stop)
         IN  ParseOk(JInt(DigitsValue(SubSeq(s, i, end - 1))), end)

RECURSIVE ParseValue(_, _), ParseElems(_, _, _), ParseMembers(_, _, _)

\* scanner.py_make_scanner._scan_once
ParseValue(s, i) ==
    IF i > Len(s) THEN ParseFail
    ELSE IF s[i] = QUOTE THEN ParseString(s, i)
    ELSE IF s[i] = "{" THEN
        LET k == SkipWs(s, i + 1)
        IN  IF CharAt(s, k) = "}" THEN ParseOk(JDict(EmptyDict), k + 1)
            ELSE ParseMembers(s, k, EmptyDict)
    ELSE IF s[i] = "[" THEN
        LET k == SkipWs(s, i + 1)
        IN  IF CharAt(s, k) = "]" THEN ParseOk(JList(<<>>), k + 1)
            ELSE ParseElems(s, k, <<>>)
    ELSE IF HasAt(s, i, <<"n", "u", "l", "l">>) THEN ParseOk(JNull, i + 4)
    ELSE IF HasAt(s, i, <<"t", "r", "u", "e">>) THEN ParseOk(JBool(TRUE), i + 4)
    ELSE IF HasAt(s, i, <<"f", "a", "l", "s", "e">>) THEN ParseOk(JBool(FALSE), i + 5)
    ELSE IF s[i] \in Digits THEN ParseNumber(s, i)
    ELSE ParseFail

\* decoder.JSONArray, from the first element on
ParseElems(s, i, acc) ==
    LET e == ParseValue(s, i)
    IN  IF ~e.ok THEN ParseFail
        ELSE LET k == SkipWs(s, e.pos)
                 items == Append(acc, e.val)
             IN  IF CharAt(s, k) = "]" THEN ParseOk(JList(items), k + 1)
                 ELSE IF CharAt(s, k) = "," THEN ParseElems(s, SkipWs(s, k + 1), items)
                 ELSE ParseFail

\* decoder.JSONObject, from the first key on: a later pair of the same key
\* replaces the earlier one (dict(pairs)).
ParseMembers(s, i, acc) ==
    IF CharAt(s, i) # QUOTE THEN ParseFail
    ELSE LET key == ParseString(s, i)
         IN  IF ~key.ok THEN ParseFail
             ELSE LET c == SkipWs(s, key.pos)
                  IN  IF CharAt(s, c) # ":" THEN ParseFail
                      ELSE LET val == ParseValue(s, SkipWs(s, c + 1))
                           IN  IF ~val.ok THEN ParseFail
                               ELSE LET k == SkipWs(s, val.pos)
                                        d == DictSet(acc, key.val.v, val.val)
                                    IN  IF CharAt(s, k) = "}" THEN ParseOk(JDict(d), k + 1)
                                        ELSE IF CharAt(s, k) = ","
                                        THEN ParseMembers(s, SkipWs(s, k + 1), d)
                                        ELSE ParseFail

\* json.loads(s): one value between optional whitespace, nothing after it
\* (Extra data); ok = FALSE stands for JSONDecodeError.
JsonLoads(s) ==
    LET r == ParseValue(s, SkipWs(s, 1))
    IN  IF r.ok /\ SkipWs(s, r.pos) > Len(s) THEN r ELSE ParseFail

\* BraceMatch with a lazy quantifier: the match ends at the first closing brace.
BraceMatch_NonGreedy(text) ==
    LET opens == {i \in 1..Len(text) : text[i] = "{"}
        closes == {i \in 1..Len(text) : text[i] = "}" /\ opens # {} /\ i > SetMin(opens)}
    IN  IF opens = {} \/ closes = {}
        THEN [found |-> FALSE, group |-> <<>>]
        ELSE [found |-> TRUE, group |-> SubSeq(text, SetMin(opens), SetMin(closes))]

\* re.search of an opening brace, anything, a closing brace, with DOTALL:
\* from the leftmost opening brace, greedy to the last closing brace.
BraceMatch(text) ==
    LET opens == {i \in 1..Len(text) : text[i] = "{"}
        closes == {i \in 1..Len(text) : text[i] = "}"}
    IN  IF opens = {} \/ closes = {} \/ SetMin(opens) > SetMax(closes)
        THEN [found |-> FALSE, group |-> <<>>]
        ELSE [found |-> TRUE, group |-> SubSeq(text, SetMin(opens), SetMax(closes))]

\* ------------------------------------------------- the environment: replies
\* A reply fragment is written together with the value it denotes: text is
\* what the service sends, val is the value a JSON reader must find in it.
Lit(s) == <<QUOTE>> \o s \o <<QUOTE>>

RECURSIVE JoinTexts(_, _)
JoinTexts(items, i) ==
    IF i > Len(items) THEN <<>>
    ELSE (IF i > 1 THEN <<",">> ELSE <<>>) \o items[i].text \o JoinTexts(items, i + 1)

RECURSIVE JoinMembers(_, _)
JoinMembers(members, i) ==
    IF i > Len(members) THEN <<>>
    ELSE (IF i > 1 THEN <<",">> ELSE <<>>)
         \o Lit(members[i][1]) \o <<":">> \o members[i][2].text
         \o JoinMembers(members, i + 1)

RECURSIVE MembersDict(_, _)
MembersDict(members, n) ==
    IF n = 0 THEN EmptyDict
    ELSE DictSet(MembersDict(members, n - 1), members[n][1], members[n][2].val)

TStr(s) == [text |-> Lit(s), val |-> JStr(s)]
TSeven == [text |-> <<"7">>, val |-> JInt(7)]
TNull == [text |-> <<"n", "u", "l", "l">>, val |-> JNull]
TList(items) ==
    [text |-> <<"[">> \o JoinTexts(items, 1) \o <<"]">>,
     val |-> JList([i \in 1..Len(items) |-> items[i].val])]
TObj(members) ==
    [text |-> <<"{">> \o JoinMembers(members, 1) \o <<"}">>,
     val |-> JDict(MembersDict(members, Len(members)))]

CaptionKey == <<"c", "a", "p", "t", "i", "o", "n">>
HashtagsKey == <<"h", "a", "s", "h", "t", "a", "g", "s">>
MoodKey == <<"m", "o", "o", "d">>

Hashes(k) == [i \in 1..k |-> HASH]

\* The hashtag entries a reply may carry: a tag with 0..MaxHashes leading
\* hashes, the empty string, and an entry that is no string.
TagItems ==
    {TStr(Hashes(k) \o <<"a">>) : k \in 0..MaxHashes} \cup {TStr(<<>>), TSeven}
TagLists == UNION {[1..n -> TagItems] : n \in 0..MaxTags}

OneTag == <<TStr(<<"a">>)>>
GoodObject(tags) ==
    TObj(<< <<CaptionKey, TStr(<<"x">>)>>, <<HashtagsKey, TList(tags)>> >>)

\* The documented object as a pretty-printer writes it: over several lines.
PrettyObject ==
    [text |-> <<"{", NL, SP>> \o Lit(CaptionKey) \o <<":", SP>> \o Lit(<<"x">>)
              \o <<",", NL, SP>> \o Lit(HashtagsKey) \o <<":", SP>>
              \o TList(OneTag).text \o <<NL, "}">>,
     val |-> GoodObject(OneTag).val]
\* JSON objects of the documented shape and of near shapes.
ObjectBodies ==
    { GoodObject(OneTag),
      GoodObject(<<TStr(<<HASH, "a">>), TStr(<<"a">>)>>),
      TObj(<< <<CaptionKey, TStr(<<"x">>)>> >>),
      TObj(<< <<HashtagsKey, TList(OneTag)>> >>),
      TObj(<< <<CaptionKey, TStr(<<"x">>)>>, <<HashtagsKey, TStr(<<"a">>)>> >>),
      TObj(<< <<CaptionKey, TStr(<<"x">>)>>, <<HashtagsKey, TNull>> >>),
      TObj(<< <<CaptionKey, TSeven>>, <<HashtagsKey, TList(OneTag)>> >>),
      TObj(<< <<CaptionKey, TStr(<<"x">>)>>, <<HashtagsKey, TList(OneTag)>>,
              <<MoodKey, TStr(<<"x">>)>> >>),
      TObj(<< <<CaptionKey, TStr(<<"}">>)>>, <<HashtagsKey, TList(OneTag)>> >>),
      PrettyObject }
\* JSON values that are no object.
OtherBodies == {TList(OneTag), TSeven, TStr(<<"x">>), TNull}
\* Texts that are no JSON.
NonJsonTexts ==
    { <<>>, <<"n", "o">>, <<"{", "x", "}">>, <<"}", SP, "{">>, <<"{", QUOTE, "x">> }

\* What a reply puts around its payload.
Bare == [pre |-> <<>>, post |-> <<>>]
JsonFenced == [pre |-> FenceJson \o <<NL>>, post |-> <<NL, BT, BT, BT>>]
PlainFenced == [pre |-> FenceAny \o <<NL>>, post |-> <<NL, BT, BT, BT>>]
UnclosedFence == [pre |-> FenceJson \o <<NL>>, post |-> <<NL>>]
Padded == [pre |-> <<SP, NL>>, post |-> <<NL>>]
ProseBefore == [pre |-> <<"S", "u", "r", "e", "!", SP>>, post |-> <<>>]
ProseAfter == [pre |-> <<>>, post |-> <<SP, "o", "k">>]
BraceProseBefore == [pre |-> <<"U", "s", "e", SP, "{", "x", "}", ":", SP>>, post |-> <<>>]
ClosingBraceProseBefore == [pre |-> <<"O", "k", SP, "}", SP>>, post |-> <<>>]
Wrappers ==
    { Bare, JsonFenced, PlainFenced, UnclosedFence, Padded, ProseBefore,
      ProseAfter, BraceProseBefore, ClosingBraceProseBefore }

Wrap(w, body) == w.pre \o body \o w.post

\* Every text the service may answer with.
ReplyTexts ==
    {Wrap(w, b.text) : w \in Wrappers, b \in ObjectBodies \cup OtherBodies}
    \cup {Wrap(w, t) : w \in {Bare, JsonFenced, ProseBefore}, t \in NonJsonTexts}
    \cup {GoodObject(l).text : l \in TagLists}

\* ------------------------------------------------------------ the request
\* request.files["image"]: absent, or a file PIL cannot identify, or an image
\* in a mode PNG can or cannot store.
NoUpload == [present |-> FALSE, decodable |-> FALSE, format |-> "", mode |-> ""]
Uploads ==
    { NoUpload,
      [present |-> TRUE, decodable |-> FALSE, format |-> "", mode |-> ""],
      [present |-> TRUE, decodable |-> TRUE, format |-> "PNG", mode |-> "RGB"],
      [present |-> TRUE, decodable |-> TRUE, format |-> "JPEG", mode |-> "RGB"],
      [present |-> TRUE, decodable |-> TRUE, format |-> "JPEG", mode |-> "CMYK"] }
\* Modes the PNG writer of PIL accepts (of those in use).
PngModes == {"RGB"}

\* request.form.get("prompt"): None when the field is absent.
Prompts ==
    { [present |-> FALSE, value |-> <<>>],
      [present |-> TRUE, value |-> <<SP, SP>>],
      [present |-> TRUE, value |-> <<SP, "c", "a", "t", SP>>] }

Requests == [image : Uploads, prompt : Prompts]
NoRequest == [image |-> NoUpload, prompt |-> [present |-> FALSE, value |-> <<>>]]

\* ----------------------------------------------------- messages and bodies
\* Fixed message texts are kept whole, as one chunk of a string.
ErrorKey == <<"e", "r", "r", "o", "r">>
RawResponseKey == <<"r", "a", "w", "_", "r", "e", "s", "p", "o", "n", "s", "e">>
NoImageMsg == <<"No image provided">>
ParseFailedMsg == <<"Failed to parse Gemini response">>
InvalidJsonMsg == <<"Invalid JSON from Gemini">>

\* str(e) of the exceptions the handler can meet.
UnidentifiedImageMsg == <<"cannot identify image file">>
CannotWriteModeMsg == <<"cannot write mode CMYK as PNG">>
BlockedReplyMsg == <<"response.text requires a valid Part">>
JsonDecodeMsg == <<"Expecting property name enclosed in double quotes">>
NoStartswithMsg == <<"'int' object has no attribute 'startswith'">>
ServiceErrors == {<<"429 quota exceeded">>, <<"503 service unavailable">>}

NoExc == [type |-> "", msg |-> <<>>]
Exc(type, msg) == [type |-> type, msg |-> msg]

\* jsonify({"error": msg}), status
ErrorResponse(status, msg) ==
    [status |-> status, body |-> JDict(DictSet(EmptyDict, ErrorKey, JStr(msg)))]
\* jsonify({"error": msg, "raw_response": raw}), status
RawErrorResponse(status, msg, raw) ==
    [status |-> status,
     body |-> JDict(DictSet(DictSet(EmptyDict, ErrorKey, JStr(msg)),
                            RawResponseKey, JStr(raw)))]
\* jsonify(result): status 200
OkResponse(value) == [status |-> 200, body |-> value]
NoResponse == [status |-> 0, body |-> JNull]

\* ----------------------------------------------------------------- prompt
PromptTask ==
    <<"Generate a short caption (max 20 words) describing this image for a social-media post.">>
PromptIdeaOpen == <<" Take this user idea into account: ", QUOTE>>
PromptIdeaClose == <<QUOTE, ".">>
PromptTail ==
    <<" Also provide 5 relevant hashtags.", NL,
      "Return ONLY valid JSON in the form: {\"caption\": \"\", \"hashtags\": []}">>

\* Step 4 of the handler.
BuildPromptText(idea) ==
    PromptTask
    \o (IF idea # <<>> THEN PromptIdeaOpen \o idea \o PromptIdeaClose ELSE <<>>)
    \o PromptTail

\* Steps 3 and 5: the two parts handed to generate_content.  The data is the
\* base64 text of the PNG re-encoding of the decoded pixels.
Base64Png(img) == [encoding |-> "base64", format |-> "PNG", mode |-> img.mode]
NoData == [encoding |-> "", format |-> "", mode |-> ""]
ModelParts(data, prompt) ==
    << [mime_type |-> "image/png", data |-> data], [text |-> prompt] >>

\* ------------------------------------------------------ shape and hashtags
\* ShapeOk without the check of the caption key.
ShapeOk_NoCaptionCheck(value) ==
    /\ value.t = "dict"
    /\ HashtagsKey \in DOMAIN value.v
    /\ value.v[HashtagsKey].t \in {"list", "tuple"}

\* The condition of step 8, negated: what lets a value through.
ShapeOk(value) ==
    /\ value.t = "dict"
    /\ CaptionKey \in DOMAIN value.v
    /\ HashtagsKey \in DOMAIN value.v
    /\ value.v[HashtagsKey].t \in {"list", "tuple"}

\* NormalizeTag with the two branches exchanged.
NormalizeTag_Inverted(tag) ==
    IF StartsWith(tag.v, <<HASH>>) THEN JStr(<<HASH>> \o tag.v) ELSE tag

\* NormalizeTag without the startswith test.
NormalizeTag_AlwaysPrefix(tag) == JStr(<<HASH>> \o tag.v)

\* tag if tag.startswith("#") else f"#{tag}"
NormalizeTag(tag) ==
    IF StartsWith(tag.v, <<HASH>>) THEN tag ELSE JStr(<<HASH>> \o tag.v)

\* Only str has startswith: anything else raises AttributeError.
TagsAreStrings(value) ==
    \A i \in 1..Len(value.v[HashtagsKey].v) : value.v[HashtagsKey].v[i].t = "str"

\* result["hashtags"] = [ ... for tag in result["hashtags"]]
NormalizeHashtags(value) ==
    JDict(DictSet(value.v, HashtagsKey,
                  JList([i \in 1..Len(value.v[HashtagsKey].v) |->
                            NormalizeTag(value.v[HashtagsKey].v[i])])))

\* ------------------------------------------------------------------ state
VARIABLES
    pc,           \* the statement the handler is at
    request,      \* the request being served
    image,        \* Image.open's result: TRUE once decoded
    user_prompt,  \* step 2
    img_b64,      \* step 3
    base_prompt,  \* step 4
    calls,        \* the generate_content calls of this request, in order
    reply,        \* what generate_content returned
    text,         \* step 6
    searched,     \* re.search was called (step 7's fallback)
    parsed,       \* what json.loads returned, as returned
    result,       \* the handler's result variable
    exc,          \* the exception caught by the outer except
    response,     \* the response returned
    sent          \* responses returned for this request

vars ==
    << pc, request, image, user_prompt, img_b64, base_prompt, calls, reply,
       text, searched, parsed, result, exc, response, sent >>

NoReply == [kind |-> "none", text |-> <<>>]
NotParsed == [ok |-> FALSE, val |-> JNull]

Fresh ==
    /\ image = FALSE
    /\ user_prompt = <<>>
    /\ img_b64 = NoData
    /\ base_prompt = <<>>
    /\ calls = <<>>
    /\ reply = NoReply
    /\ text = <<>>
    /\ searched = FALSE
    /\ parsed = NotParsed
    /\ result = JNull
    /\ exc = NoExc
    /\ response = NoResponse
    /\ sent = 0

Init ==
    /\ pc = "idle"
    /\ request = NoRequest
    /\ Fresh

\* ---------------------------------------------------------------- actions
\* Flask hands a POST /generate-caption to the handler; every local starts
\* unset.
Receive ==
    /\ pc \in {"idle", "responded"}
    /\ \E r \in Requests : request' = r
    /\ pc' = "check_image"
    /\ image' = FALSE
    /\ user_prompt' = <<>>
    /\ img_b64' = NoData
    /\ base_prompt' = <<>>
    /\ calls' = <<>>
    /\ reply' = NoReply
    /\ text' = <<>>
    /\ searched' = FALSE
    /\ parsed' = NotParsed
    /\ result' = JNull
    /\ exc' = NoExc
    /\ response' = NoResponse
    /\ sent' = 0

\* return jsonify(...), status
Return(resp) ==
    /\ response' = resp
    /\ sent' = sent + 1
    /\ pc' = "responded"

\* an exception inside the try block: control goes to the outer except
Raise(type, msg) ==
    /\ exc' = Exc(type, msg)
    /\ pc' = "except"

\* NoImage without the status: Flask answers 200.
NoImage_DefaultStatus ==
    /\ pc = "check_image"
    /\ ~request.image.present
    /\ Return(ErrorResponse(200, NoImageMsg))
    /\ UNCHANGED << request, image, user_prompt, img_b64, base_prompt, calls,
                    reply, text, searched, parsed, result, exc >>

\* Step 1: the image field is missing.
NoImage ==
    /\ pc = "check_image"
    /\ ~request.image.present
    /\ Return(ErrorResponse(400, NoImageMsg))
    /\ UNCHANGED << request, image, user_prompt, img_b64, base_prompt, calls,
                    reply, text, searched, parsed, result, exc >>

\* Step 1: Image.open identifies the file.
OpenImage ==
    /\ pc = "check_image"
    /\ request.image.present
    /\ request.image.decodable
    /\ image' = TRUE
    /\ pc' = "read_prompt"
    /\ UNCHANGED << request, user_prompt, img_b64, base_prompt, calls, reply,
                    text, searched, parsed, result, exc, response, sent >>

\* Step 1: Image.open raises UnidentifiedImageError.
OpenImageFails ==
    /\ pc = "check_image"
    /\ request.image.present
    /\ ~request.image.decodable
    /\ Raise("UnidentifiedImageError", UnidentifiedImageMsg)
    /\ UNCHANGED << request, image, user_prompt, img_b64, base_prompt, calls,
                    reply, text, searched, parsed, result, response, sent >>

\* Step 2: (request.form.get("prompt") or "").strip()
ReadPrompt ==
    /\ pc = "read_prompt"
    /\ user_prompt' =
           Strip(IF request.prompt.present THEN request.prompt.value ELSE <<>>)
    /\ pc' = "encode_image"
    /\ UNCHANGED << request, image, img_b64, base_prompt, calls, reply, text,
                    searched, parsed, result, exc, response, sent >>

\* Step 3: image.save(buf, format="PNG") and base64.
EncodeImage ==
    /\ pc = "encode_image"
    /\ request.image.mode \in PngModes
    /\ img_b64' = Base64Png(request.image)
    /\ pc' = "build_prompt"
    /\ UNCHANGED << request, image, user_prompt, base_prompt, calls, reply,
                    text, searched, parsed, result, exc, response, sent >>

\* Step 3: image.save raises OSError for a mode PNG cannot store.
EncodeImageFails ==
    /\ pc = "encode_image"
    /\ request.image.mode \notin PngModes
    /\ Raise("OSError", CannotWriteModeMsg)
    /\ UNCHANGED << request, image, user_prompt, img_b64, base_prompt, calls,
                    reply, text, searched, parsed, result, response, sent >>

\* Step 4
BuildPrompt ==
    /\ pc = "build_prompt"
    /\ base_prompt' = BuildPromptText(user_prompt)
    /\ pc' = "call_model"
    /\ UNCHANGED << request, image, user_prompt, img_b64, calls, reply, text,
                    searched, parsed, result, exc, response, sent >>

\* Step 5: generate_content returns a response whose text is any text.
ModelReplies ==
    /\ pc = "call_model"
    /\ calls' = Append(calls, ModelParts(img_b64, base_prompt))
    /\ \E t \in ReplyTexts : reply' = [kind |-> "text", text |-> t]
    /\ pc' = "read_reply"
    /\ UNCHANGED << request, image, user_prompt, img_b64, base_prompt, text,
                    searched, parsed, result, exc, response, sent >>

\* Step 5: generate_content returns a response without any text part.
ModelRepliesBlocked ==
    /\ pc = "call_model"
    /\ calls' = Append(calls, ModelParts(img_b64, base_prompt))
    /\ reply' = [kind |-> "blocked", text |-> <<>>]
    /\ pc' = "read_reply"
    /\ UNCHANGED << request, image, user_prompt, img_b64, base_prompt, text,
                    searched, parsed, result, exc, response, sent >>

\* ModelRaises with one retry before giving up.
ModelRaises_RetryOnce ==
    /\ pc = "call_model"
    /\ calls' = Append(calls, ModelParts(img_b64, base_prompt))
    /\ IF calls = <<>>
       THEN pc' = "call_model" /\ exc' = exc
       ELSE \E m \in ServiceErrors : Raise("ServiceError", m)
    /\ UNCHANGED << request, image, user_prompt, img_b64, base_prompt, reply,
                    text, searched, parsed, result, response, sent >>

\* Step 5: generate_content raises (network, credential, quota).
ModelRaises ==
    /\ pc = "call_model"
    /\ calls' = Append(calls, ModelParts(img_b64, base_prompt))
    /\ \E m \in ServiceErrors : Raise("ServiceError", m)
    /\ UNCHANGED << request, image, user_prompt, img_b64, base_prompt, reply,
                    text, searched, parsed, result, response, sent >>

\* Line 70: response.text raises ValueError when the reply has no text part.
ReplyTextRaises ==
    /\ pc = "read_reply"
    /\ reply.kind = "blocked"
    /\ Raise("ValueError", BlockedReplyMsg)
    /\ UNCHANGED << request, image, user_prompt, img_b64, base_prompt, calls,
                    reply, text, searched, parsed, result, response, sent >>

\* Step 6 (after the debug log of the raw text)
CleanReply ==
    /\ pc = "read_reply"
    /\ reply.kind = "text"
    /\ text' = StripFences(reply.text)
    /\ pc' = "parse_json"
    /\ UNCHANGED << request, image, user_prompt, img_b64, base_prompt, calls,
                    reply, searched, parsed, result, exc, response, sent >>

\* Step 7: result = json.loads(text)
ParseStrict ==
    /\ pc = "parse_json"
    /\ JsonLoads(text).ok
    /\ result' = JsonLoads(text).val
    /\ parsed' = [ok |-> TRUE, val |-> JsonLoads(text).val]
    /\ pc' = "validate_shape"
    /\ UNCHANGED << request, image, user_prompt, img_b64, base_prompt, calls,
                    reply, text, searched, exc, response, sent >>

\* Step 7: json.loads(text) raises JSONDecodeError, caught by the inner except.
ParseStrictFails ==
    /\ pc = "parse_json"
    /\ ~JsonLoads(text).ok
    /\ pc' = "fallback"
    /\ UNCHANGED << request, image, user_prompt, img_b64, base_prompt, calls,
                    reply, text, searched, parsed, result, exc, response, sent >>

\* Step 7: re.search finds nothing.
FallbackNoMatch ==
    /\ pc = "fallback"
    /\ searched' = TRUE
    /\ ~BraceMatch(text).found
    /\ Return(RawErrorResponse(500, ParseFailedMsg, text))
    /\ UNCHANGED << request, image, user_prompt, img_b64, base_prompt, calls,
                    reply, text, parsed, result, exc >>

\* Step 7: result = json.loads(m.group())
FallbackParses ==
    /\ pc = "fallback"
    /\ searched' = TRUE
    /\ BraceMatch(text).found
    /\ JsonLoads(BraceMatch(text).group).ok
    /\ result' = JsonLoads(BraceMatch(text).group).val
    /\ parsed' = [ok |-> TRUE, val |-> JsonLoads(BraceMatch(text).group).val]
    /\ pc' = "validate_shape"
    /\ UNCHANGED << request, image, user_prompt, img_b64, base_prompt, calls,
                    reply, text, exc, response, sent >>

\* Step 7: json.loads(m.group()) raises JSONDecodeError inside the inner
\* except block, where nothing but the outer except catches it.
FallbackRaises ==
    /\ pc = "fallback"
    /\ searched' = TRUE
    /\ BraceMatch(text).found
    /\ ~JsonLoads(BraceMatch(text).group).ok
    /\ Raise("JSONDecodeError", JsonDecodeMsg)
    /\ UNCHANGED << request, image, user_prompt, img_b64, base_prompt, calls,
                    reply, text, parsed, result, response, sent >>

\* Step 8: the value has not the shape.
ShapeInvalid ==
    /\ pc = "validate_shape"
    /\ ~ShapeOk(result)
    /\ Return(ErrorResponse(500, InvalidJsonMsg))
    /\ UNCHANGED << request, image, user_prompt, img_b64, base_prompt, calls,
                    reply, text, searched, parsed, result, exc >>

\* Step 8: the value has the shape.
ShapeValid ==
    /\ pc = "validate_shape"
    /\ ShapeOk(result)
    /\ pc' = "normalise"
    /\ UNCHANGED << request, image, user_prompt, img_b64, base_prompt, calls,
                    reply, text, searched, parsed, result, exc, response, sent >>

\* Step 8: the list comprehension over result["hashtags"].
Normalise ==
    /\ pc = "normalise"
    /\ TagsAreStrings(result)
    /\ result' = NormalizeHashtags(result)
    /\ pc' = "return_result"
    /\ UNCHANGED << request, image, user_prompt, img_b64, base_prompt, calls,
                    reply, text, searched, parsed, exc, response, sent >>

\* Step 8: an entry that is no string has no startswith.
NormaliseRaises ==
    /\ pc = "normalise"
    /\ ~TagsAreStrings(result)
    /\ Raise("AttributeError", NoStartswithMsg)
    /\ UNCHANGED << request, image, user_prompt, img_b64, base_prompt, calls,
                    reply, text, searched, parsed, result, response, sent >>

\* return jsonify(result)
ReturnResult ==
    /\ pc = "return_result"
    /\ Return(OkResponse(result))
    /\ UNCHANGED << request, image, user_prompt, img_b64, base_prompt, calls,
                    reply, text, searched, parsed, result, exc >>

\* Except narrowed to JSONDecodeError: anything else reaches Flask, which
\* answers with its own HTML page.
Except_OnlyDecodeErrors ==
    /\ pc = "except"
    /\ IF exc.type = "JSONDecodeError"
       THEN Return(ErrorResponse(500, exc.msg))
       ELSE Return([status |-> 500, body |-> JStr(<<"<!doctype html>">>)])
    /\ UNCHANGED << request, image, user_prompt, img_b64, base_prompt, calls,
                    reply, text, searched, parsed, result, exc >>

\* except Exception as e: return jsonify({"error": str(e)}), 500
Except ==
    /\ pc = "except"
    /\ Return(ErrorResponse(500, exc.msg))
    /\ UNCHANGED << request, image, user_prompt, img_b64, base_prompt, calls,
                    reply, text, searched, parsed, result, exc >>

Next ==
    \/ Receive
    \/ NoImage
    \/ OpenImage
    \/ OpenImageFails
    \/ ReadPrompt
    \/ EncodeImage
    \/ EncodeImageFails
    \/ BuildPrompt
    \/ ModelReplies
    \/ ModelRepliesBlocked
    \/ ModelRaises
    \/ ReplyTextRaises
    \/ CleanReply
    \/ ParseStrict
    \/ ParseStrictFails
    \/ FallbackNoMatch
    \/ FallbackParses
    \/ FallbackRaises
    \/ ShapeInvalid
    \/ ShapeValid
    \/ Normalise
    \/ NormaliseRaises
    \/ ReturnResult
    \/ Except

Spec == Init /\ [][Next]_vars

\* ================================================================ claims
Responded == pc = "responded"
\* The value of one key of a response body.
BodyKeys == DOMAIN response.body.v
\* The handler got a text from the service and is past step 7.
PastParse ==
    /\ reply.kind = "text"
    /\ pc \in {"validate_shape", "normalise", "return_result", "responded", "except"}
\* The hashtags json.loads returned and the hashtags of the response.
TagsIn == parsed.val.v[HashtagsKey].v
TagsOut == response.body.v[HashtagsKey].v

\* C1: a request without an image field is answered 400 with the body
\* {error: No image provided} and nothing else; no decode, encode, prompt or
\* model call happens for it.
C1_MissingImage ==
    (pc # "idle" /\ ~request.image.present) =>
        /\ pc \in {"check_image", "responded"}
        /\ calls = <<>>
        /\ image = FALSE
        /\ img_b64 = NoData
        /\ base_prompt = <<>>
        /\ Responded =>
            /\ response.status = 400
            /\ BodyKeys = {ErrorKey}
            /\ response.body.v[ErrorKey] = JStr(NoImageMsg)
C1_Witness ==
    Responded /\ ~request.image.present /\ response.status = 400

\* C2: an image field that is present but cannot be decoded or re-encoded
\* is answered 400, and the model is not called.
C2_UndecodableImageIs400 ==
    ( /\ Responded
      /\ request.image.present
      /\ (~request.image.decodable \/ request.image.mode \notin PngModes) ) =>
        response.status = 400 /\ calls = <<>>

\* C3: when the cleaned reply is no JSON and either holds no brace-delimited
\* substring or holds one that is no JSON either, the answer is 500 with an
\* error field and a raw_response field equal to the cleaned text.
C3_ParseFailureCarriesRaw ==
    ( /\ Responded
      /\ reply.kind = "text"
      /\ ~JsonLoads(text).ok
      /\ \/ ~BraceMatch(text).found
         \/ ~JsonLoads(BraceMatch(text).group).ok ) =>
        /\ response.status = 500
        /\ ErrorKey \in BodyKeys
        /\ RawResponseKey \in BodyKeys
        /\ response.body.v[RawResponseKey] = JStr(text)

\* The four checks of step 8, on the value json.loads returned.
C4_FourChecks ==
    /\ parsed.val.t = "dict"
    /\ CaptionKey \in DOMAIN parsed.val.v
    /\ HashtagsKey \in DOMAIN parsed.val.v
    /\ parsed.val.v[HashtagsKey].t = "list"

\* C4: a parsed value that is no mapping, or lacks caption, or lacks
\* hashtags, or whose hashtags is no list, is answered 500 with the generic
\* error alone (no raw_response) and the result is left as parsed; a 200 is
\* only produced for a value that passes all four checks.
C4_ShapeValidation ==
    /\ (Responded /\ parsed.ok /\ ~C4_FourChecks) =>
           /\ response.status = 500
           /\ BodyKeys = {ErrorKey}
           /\ response.body.v[ErrorKey] = JStr(InvalidJsonMsg)
           /\ result = parsed.val
    /\ response.status = 200 => (parsed.ok /\ C4_FourChecks)
C4_Witness ==
    /\ Responded
    /\ parsed.ok
    /\ parsed.val.t = "dict"
    /\ CaptionKey \in DOMAIN parsed.val.v
    /\ HashtagsKey \notin DOMAIN parsed.val.v
    /\ response.status = 500

\* C5: in a 200 response the hashtags have the length and order of the
\* parsed hashtags; entry i is the parsed entry unchanged if it starts with a
\* hash and a hash followed by the parsed entry otherwise; so every entry
\* starts with a hash.
C5_HashtagsNormalised ==
    response.status = 200 =>
        /\ Len(TagsOut) = Len(TagsIn)
        /\ \A i \in 1..Len(TagsIn) :
            /\ TagsIn[i].t = "str"
            /\ TagsOut[i].t = "str"
            /\ IF Len(TagsIn[i].v) > 0 /\ TagsIn[i].v[1] = HASH
               THEN TagsOut[i].v = TagsIn[i].v
               ELSE TagsOut[i].v = <<HASH>> \o TagsIn[i].v
            /\ TagsOut[i].v[1] = HASH
C5_Witness ==
    /\ response.status = 200
    /\ Len(TagsIn) = 2
    /\ TagsIn[1].v = <<HASH, "a">>
    /\ TagsIn[2].v = <<"a">>
    /\ TagsOut[1] = TagsOut[2]

\* The output of the prefix rule starts with one hash and no second one.
ExactlyOneHash(s) == Len(s) >= 1 /\ s[1] = HASH /\ (Len(s) >= 2 => s[2] # HASH)

\* C6 as stated: the prefix rule is idempotent and its output starts with
\* exactly one hash for every input, inputs with several leading hashes
\* included.
C6_ExactlyOneHashAlways ==
    response.status = 200 =>
        \A i \in 1..Len(TagsOut) :
            /\ NormalizeTag(TagsOut[i]) = TagsOut[i]
            /\ ExactlyOneHash(TagsOut[i].v)

\* C6 amended: the prefix rule is idempotent and its output starts with a
\* hash; it starts with exactly one hash unless the input itself starts with
\* two or more, which is returned unchanged.
C6_IdempotentLeadingHash ==
    response.status = 200 =>
        \A i \in 1..Len(TagsOut) :
            /\ NormalizeTag(TagsOut[i]) = TagsOut[i]
            /\ TagsOut[i].v[1] = HASH
            /\ IF StartsWith(TagsIn[i].v, <<HASH, HASH>>)
               THEN TagsOut[i] = TagsIn[i]
               ELSE ExactlyOneHash(TagsOut[i].v)
C6_Witness ==
    /\ response.status = 200
    /\ Len(TagsIn) = 2
    /\ TagsIn[1].v = <<>>
    /\ TagsIn[2].v = <<HASH, HASH, "a">>

\* C7: the model is called at most once per request, and only once the
\* image was present, decoded and re-encoded; when the call raises, nothing
\* is parsed, no second call is made, and the answer is 500 with the message
\* of the exception as error.
C7_OneCallNoRetry ==
    /\ Len(calls) <= 1
    /\ calls # <<>> =>
        /\ request.image.present
        /\ image = TRUE
        /\ img_b64 = Base64Png(request.image)
        /\ calls[1][1].data = img_b64
    /\ exc.type = "ServiceError" =>
        /\ Len(calls) = 1
        /\ pc \in {"except", "responded"}
        /\ reply = NoReply
        /\ parsed = NotParsed
        /\ ~searched
        /\ Responded =>
            /\ response.status = 500
            /\ BodyKeys = {ErrorKey}
            /\ response.body.v[ErrorKey] = JStr(exc.msg)
C7_Witness ==
    Responded /\ exc.type = "ServiceError" /\ response.status = 500

\* C8: every request that has ended has exactly one JSON response, of
\* status 200, 400 or 500, whatever the image, the outcome of the model call
\* and the parsed value were; every 400 and 500 body has an error field, 400
\* is the missing image alone, and every exception raised is caught and
\* reported as a 500 carrying its message.
C8_OneResponse ==
    /\ pc \notin {"idle", "responded"} => sent = 0
    /\ Responded =>
        /\ sent = 1
        /\ response.status \in {200, 400, 500}
        /\ response.body.t = "dict"
        /\ response.status \in {400, 500} => ErrorKey \in BodyKeys
        /\ response.status = 400 => ~request.image.present
    /\ exc # NoExc =>
        /\ pc \in {"except", "responded"}
        /\ Responded =>
            /\ response.status = 500
            /\ response.body.v[ErrorKey] = JStr(exc.msg)
C8_Witness ==
    Responded /\ exc.type = "AttributeError" /\ response.status = 500

\* C9: a 200 body has exactly the fields caption and hashtags, caption a
\* string and hashtags a list of strings, whatever else the reply carried.
C9_ExactlyTwoFields ==
    response.status = 200 =>
        /\ BodyKeys = {CaptionKey, HashtagsKey}
        /\ response.body.v[CaptionKey].t = "str"
        /\ \A i \in 1..Len(TagsOut) : TagsOut[i].t = "str"

\* Wrappers that put prose, and nothing else, before the payload.
ProseBeforeWrappers ==
    {w \in Wrappers : w.post = <<>> /\ w.pre # <<>> /\ ~StartsWith(w.pre, FenceAny)}
HasOpeningBrace(s) == \E i \in 1..Len(s) : s[i] = "{"

\* The parts of C10 that do not depend on what the prose holds: fences are
\* removed only from a text that begins with a marker; the fallback is only
\* consulted when the strict parse of the cleaned text fails; a fenced valid
\* object yields that object.
C10_Chain ==
    /\ (reply.kind = "text" /\ pc \notin {"call_model", "read_reply"}
            /\ ~StartsWith(Strip(reply.text), FenceAny)) =>
           text = Strip(reply.text)
    /\ searched => ~JsonLoads(text).ok
    /\ \A w \in {JsonFenced, PlainFenced}, b \in ObjectBodies :
           (PastParse /\ reply.text = Wrap(w, b.text)) =>
               (parsed = [ok |-> TRUE, val |-> b.val] /\ ~searched)
\* a valid object after these wrappers yields the object
YieldsObjectAfter(ws) ==
    \A w \in ws, b \in ObjectBodies :
        (PastParse /\ reply.text = Wrap(w, b.text)) =>
            parsed = [ok |-> TRUE, val |-> b.val]

\* C10 as stated: the ordered parse chain, and as its consequence a fenced
\* valid object and a valid object preceded by any prose both yield the
\* object.
C10_AnyProseYieldsObject ==
    C10_Chain /\ YieldsObjectAfter(ProseBeforeWrappers)

\* C10 amended: the ordered parse chain, and as its consequence a fenced
\* valid object and a valid object preceded by prose that holds no opening
\* brace both yield the object.
C10_BraceFreeProseYieldsObject ==
    C10_Chain
    /\ YieldsObjectAfter({w \in ProseBeforeWrappers : ~HasOpeningBrace(w.pre)})
C10_Witness ==
    /\ pc = "validate_shape"
    /\ searched
    /\ reply.text = Wrap(ClosingBraceProseBefore, PrettyObject.text)
    /\ parsed.val = PrettyObject.val

====
